---- MODULE Spec2Model ----
(***************************************************************************)
(* The tweak ledger of FrogOptimizer (src/optimizer.py): applied_tweaks,   *)
(* tweak_history, current_profile, last_resolution, last_refresh_rate and  *)
(* the JSON files the ledger is saved to, exported to and imported from.   *)
(*                                                                         *)
(* Python values and JSON values are kept apart: a file holds JSON values  *)
(* (tagged records: missing key, null, list, string, number), the ledger   *)
(* holds Python values (a set, a list of dicts, None or a str, a tuple).   *)
(* log_message and the message boxes are GUI output and change no ledger   *)
(* state; they are taken to return normally.                               *)
(*                                                                         *)
(* optimizer.py defines class FrogOptimizer twice (lines 99 and 1086); the *)
(* second definition replaces the first, so the constructor modelled is    *)
(* the one at lines 1087-1132.                                             *)
(*                                                                         *)
(* last, pre, run and written are history variables: they record which     *)
(* call ran last, the state it started from, the tweak functions it called *)
(* with their results, and the ledger a file was written from.  No         *)
(* operation reads them.                                                   *)
(*                                                                         *)
(* SpecThreads runs the worker threads of apply_performance_profile one    *)
(* step at a time against each other and against clear_saved_tweaks on the *)
(* GUI thread; the other specifications run every operation alone, from    *)
(* its call to its return.                                                 *)
(***************************************************************************)
EXTENDS FiniteSets, Integers, Sequences, TLC

\* ---------------------------------------------------------------- bounds
MaxHist == 2        \* track_tweak is called only while Len(tweak_history) < MaxHist
MaxRuns == 1        \* a profile is applied only while the history holds
                    \* fewer than MaxRuns profile applications

\* ------------------------------------------------------------ basic values
TweakNames == {"disable_telemetry", "disable_cortana"}
None == "None"                         \* Python's None
DefaultWidth == 1920
DefaultHeight == 1080
DefaultRefreshRate == 60
DefaultResolution == [t |-> "tuple", v |-> <<DefaultWidth, DefaultHeight>>]

Range(s) == {s[i] : i \in DOMAIN s}
\* list(a_set): the elements of the set in some order, each once
ListsOf(S) == {s \in [1..Cardinality(S) -> S] : Range(s) = S}

\* ------------------------------------------------------------- JSON values
Missing == [t |-> "missing"]           \* the key is not in the object
JNull == [t |-> "null"]
JList(s) == [t |-> "list", v |-> s]
JStr(s) == [t |-> "str", v |-> s]
JInt(n) == [t |-> "int", v |-> n]
SystemInfo == [t |-> "object", v |-> <<"platform", "python_version">>]

\* file contents
Absent == [kind |-> "absent"]          \* no such file
Malformed == [kind |-> "malformed"]    \* not JSON (also a truncated write)
JArray == [kind |-> "array"]           \* JSON whose top-level value is a list
JObject(a, h, p, stampKey, res, rate) ==
    [kind |-> "object", applied_tweaks |-> a, tweak_history |-> h,
     current_profile |-> p, stampKey |-> stampKey,
     system_info |-> SystemInfo, last_resolution |-> res,
     last_refresh_rate |-> rate]

\* json.dump of the Python values the ledger holds
DumpProfile(p) == IF p = None THEN JNull ELSE JStr(p)
DumpResolution(r) == JList(r.v)        \* a tuple is written as a JSON list

\* time.strftime('%Y-%m-%d %H:%M:%S'): the ledger stores the string and never
\* reads it, so every reading is the one value Timestamp
Timestamp == "strftime"
TweakRecord(name) == [tweak |-> name, timestamp |-> Timestamp, success |-> TRUE]

\* ---------------------------------------------------- files not written by
\* the program: what a user may pick in the import dialog, or what may lie
\* at tweaks_file when a process starts
ForeignDocs ==
    [ malformed_json |-> Malformed,
      array_json |-> JArray,
      empty_object_json |->
          JObject(Missing, Missing, Missing, "timestamp", Missing, Missing),
      applied_only_json |->
          JObject(JList(<<"disable_cortana">>), Missing, Missing,
                  "timestamp", Missing, Missing),
      bad_applied_json |->
          JObject(JInt(5), JList(<<TweakRecord("disable_cortana")>>),
                  JStr("balanced"), "timestamp", Missing, Missing),
      null_resolution_json |->
          JObject(JList(<<"disable_cortana", "disable_cortana">>),
                  JList(<<TweakRecord("disable_cortana")>>),
                  JStr("balanced"), "timestamp", JNull, JInt(144)),
      full_json |->
          JObject(JList(<<"disable_cortana">>),
                  JList(<<[tweak |-> "disable_telemetry", timestamp |-> Timestamp,
                           success |-> FALSE],
                          TweakRecord("disable_cortana")>>),
                  JStr("quality"), "timestamp",
                  JList(<<1280, 720>>), JInt(144)) ]
ForeignPaths == DOMAIN ForeignDocs
ExportPath == "backup.json"

\* ---------------------------------------------------------------- state
VARIABLES
    applied_tweaks,     \* self.applied_tweaks: a set of names
    tweak_history,      \* self.tweak_history: a list of records
    current_profile,    \* self.current_profile: None or a str
    last_resolution,    \* self.last_resolution: a tuple
    last_refresh_rate,  \* self.last_refresh_rate
    file,               \* content of self.tweaks_file
    xfile,              \* content of the export file ExportPath
    written,            \* per file: the ledger a successful write serialised
    last,               \* the operation that ran last: its inputs and result
    pre,                \* the ledger and the files before that operation
    run,                \* the tweak functions that operation called
    workers,            \* per worker thread: where it is in its code and
                        \* its local variables
    race                \* what the threads have done to each other so far

vars == <<applied_tweaks, tweak_history, current_profile, last_resolution,
          last_refresh_rate, file, xfile, written, last, pre, run, workers,
          race>>

\* the ledger and the files as one value
World == [applied_tweaks |-> applied_tweaks, tweak_history |-> tweak_history,
          current_profile |-> current_profile,
          last_resolution |-> last_resolution,
          last_refresh_rate |-> last_refresh_rate,
          file |-> file, xfile |-> xfile]

NoRun == [op |-> "none"]

\* the threads apply_performance_profile starts; a thread that has not
\* been started is idle
WorkerIds == {1, 2}
NoDoc == [kind |-> "none"]
IdleWorker == [pc |-> "idle", profile |-> None, todo |-> <<>>,
               list |-> <<>>, p |-> None, buf |-> NoDoc,
               unlinked |-> FALSE, late |-> FALSE, failed |-> FALSE]
NoRace == [overlap |-> FALSE, cleared |-> FALSE]
NoSnap == [kind |-> "none"]
Snap(w) == [kind |-> "ledger", applied_tweaks |-> w.applied_tweaks,
            tweak_history |-> w.tweak_history,
            current_profile |-> w.current_profile]

\* ------------------------------------------------------------- operations
\* Every operation maps a world w and its inputs to [w |-> world after,
\* ret |-> "True" | "False" | "None"].

\* dict.get(key, default) of the three ledger keys
GetApplied(doc) ==
    IF doc.applied_tweaks = Missing THEN {} ELSE Range(doc.applied_tweaks.v)
GetHistory(doc) ==
    IF doc.tweak_history = Missing THEN <<>> ELSE doc.tweak_history.v
GetProfile(doc) ==
    IF doc.current_profile \in {Missing, JNull} THEN None
    ELSE doc.current_profile.v
\* set(x) and tuple(x) raise TypeError unless x is iterable
SetRaises(doc) == doc.applied_tweaks.t \notin {"missing", "list"}
TupleRaises(doc) == doc.last_resolution.t \notin {"missing", "list"}

\* save_tweaks with the 'tweak_history' entry left out of tweak_data
save_tweaks_nohistory(w, io, order) ==
    LET doc == JObject(JList(order), Missing,
                       DumpProfile(w.current_profile), "timestamp",
                       DumpResolution(w.last_resolution),
                       JInt(w.last_refresh_rate))
    IN  CASE io = "ok" -> [w |-> [w EXCEPT !.file = doc], ret |-> "True"]
          [] io = "open_fail" -> [w |-> w, ret |-> "False"]
          [] OTHER -> [w |-> [w EXCEPT !.file = Malformed], ret |-> "False"]

save_tweaks(w, io, order) ==
    LET doc == JObject(JList(order), JList(w.tweak_history),
                       DumpProfile(w.current_profile), "timestamp",
                       DumpResolution(w.last_resolution),
                       JInt(w.last_refresh_rate))
    IN  CASE io = "ok" -> [w |-> [w EXCEPT !.file = doc], ret |-> "True"]
          [] io = "open_fail" -> [w |-> w, ret |-> "False"]
          [] OTHER -> [w |-> [w EXCEPT !.file = Malformed], ret |-> "False"]

\* load_saved_tweaks whose data.get calls default to the value already held
load_saved_tweaks_keep(w, io) ==
    LET doc == w.file
    IN  IF doc = Absent THEN [w |-> w, ret |-> "False"]
        ELSE IF io # "ok" \/ doc.kind # "object" THEN [w |-> w, ret |-> "False"]
        ELSE IF SetRaises(doc) THEN [w |-> w, ret |-> "False"]
        ELSE LET w3 == [w EXCEPT
                          !.applied_tweaks =
                              IF doc.applied_tweaks = Missing THEN @
                              ELSE GetApplied(doc),
                          !.tweak_history =
                              IF doc.tweak_history = Missing THEN @
                              ELSE GetHistory(doc),
                          !.current_profile =
                              IF doc.current_profile = Missing THEN @
                              ELSE GetProfile(doc)]
             IN  IF TupleRaises(doc) THEN [w |-> w3, ret |-> "False"]
                 ELSE [w |-> [w3 EXCEPT
                          !.last_resolution =
                              IF doc.last_resolution = Missing THEN @
                              ELSE [t |-> "tuple", v |-> doc.last_resolution.v],
                          !.last_refresh_rate =
                              IF doc.last_refresh_rate = Missing THEN @
                              ELSE doc.last_refresh_rate.v],
                       ret |-> "True"]

\* load_saved_tweaks with the tuple(...) conversion outside its try block:
\* the TypeError reaches the caller
load_saved_tweaks_unguarded(w, io) ==
    LET doc == w.file
    IN  IF doc = Absent THEN [w |-> w, ret |-> "False"]
        ELSE IF io # "ok" \/ doc.kind # "object" THEN [w |-> w, ret |-> "False"]
        ELSE IF SetRaises(doc) THEN [w |-> w, ret |-> "False"]
        ELSE LET w3 == [w EXCEPT !.applied_tweaks = GetApplied(doc),
                                 !.tweak_history = GetHistory(doc),
                                 !.current_profile = GetProfile(doc)]
             IN  IF TupleRaises(doc) THEN [w |-> w3, ret |-> "raise"]
                 ELSE [w |-> [w3 EXCEPT
                          !.last_resolution =
                              IF doc.last_resolution = Missing
                              THEN DefaultResolution
                              ELSE [t |-> "tuple", v |-> doc.last_resolution.v],
                          !.last_refresh_rate =
                              IF doc.last_refresh_rate = Missing
                              THEN DefaultRefreshRate
                              ELSE doc.last_refresh_rate.v],
                       ret |-> "True"]

load_saved_tweaks(w, io) ==
    LET doc == w.file
    IN  IF doc = Absent THEN [w |-> w, ret |-> "False"]
        ELSE IF io # "ok" \/ doc.kind # "object" THEN [w |-> w, ret |-> "False"]
        ELSE IF SetRaises(doc) THEN [w |-> w, ret |-> "False"]
        ELSE LET w3 == [w EXCEPT !.applied_tweaks = GetApplied(doc),
                                 !.tweak_history = GetHistory(doc),
                                 !.current_profile = GetProfile(doc)]
             IN  IF TupleRaises(doc) THEN [w |-> w3, ret |-> "False"]
                 ELSE [w |-> [w3 EXCEPT
                          !.last_resolution =
                              IF doc.last_resolution = Missing
                              THEN DefaultResolution
                              ELSE [t |-> "tuple", v |-> doc.last_resolution.v],
                          !.last_refresh_rate =
                              IF doc.last_refresh_rate = Missing
                              THEN DefaultRefreshRate
                              ELSE doc.last_refresh_rate.v],
                       ret |-> "True"]

\* the constructor without its load_saved_tweaks() call
FrogOptimizer_init_noload(w, io) ==
    [w |-> [w EXCEPT !.applied_tweaks = {}, !.tweak_history = <<>>,
                     !.current_profile = None,
                     !.last_resolution = DefaultResolution,
                     !.last_refresh_rate = DefaultRefreshRate],
     ret |-> "None"]

\* FrogOptimizer.__init__: the ledger part of the constructor
FrogOptimizer_init(w, io) ==
    LET w0 == [w EXCEPT !.applied_tweaks = {}, !.tweak_history = <<>>,
                        !.current_profile = None]
        r == load_saved_tweaks(w0, io)
    IN  [w |-> [r.w EXCEPT !.last_resolution = DefaultResolution,
                           !.last_refresh_rate = DefaultRefreshRate],
         ret |-> "None"]

\* track_tweak that records a tweak only the first time it is applied
track_tweak_dedup(w, tweak_name, success, io, order) ==
    IF success /\ tweak_name \notin w.applied_tweaks
    THEN LET w1 == [w EXCEPT
                      !.applied_tweaks = @ \cup {tweak_name},
                      !.tweak_history = Append(@, TweakRecord(tweak_name))]
         IN  [w |-> save_tweaks(w1, io, order).w, ret |-> "None"]
    ELSE [w |-> w, ret |-> "None"]

\* track_tweak without the 'if success' test
track_tweak_always(w, tweak_name, success, io, order) ==
    LET w1 == [w EXCEPT
                 !.applied_tweaks = @ \cup {tweak_name},
                 !.tweak_history = Append(@, TweakRecord(tweak_name))]
        order1 == CHOOSE o \in ListsOf(w1.applied_tweaks) : TRUE
    IN  [w |-> save_tweaks(w1, io, order1).w, ret |-> "None"]

\* track_tweak that puts the new record at the head of the history
track_tweak_prepend(w, tweak_name, success, io, order) ==
    IF success
    THEN LET w1 == [w EXCEPT
                      !.applied_tweaks = @ \cup {tweak_name},
                      !.tweak_history = <<TweakRecord(tweak_name)>> \o @]
         IN  [w |-> save_tweaks(w1, io, order).w, ret |-> "None"]
    ELSE [w |-> w, ret |-> "None"]

\* track_tweak that calls save_tweaks() before it updates the ledger
track_tweak_savefirst(w, tweak_name, success, io, order) ==
    IF success
    THEN LET order0 == CHOOSE o \in ListsOf(w.applied_tweaks) : TRUE
             w1 == save_tweaks(w, io, order0).w
         IN  [w |-> [w1 EXCEPT
                       !.applied_tweaks = @ \cup {tweak_name},
                       !.tweak_history = Append(@, TweakRecord(tweak_name))],
              ret |-> "None"]
    ELSE [w |-> w, ret |-> "None"]

track_tweak(w, tweak_name, success, io, order) ==
    IF success
    THEN LET w1 == [w EXCEPT
                      !.applied_tweaks = @ \cup {tweak_name},
                      !.tweak_history = Append(@, TweakRecord(tweak_name))]
         IN  [w |-> save_tweaks(w1, io, order).w, ret |-> "None"]
    ELSE [w |-> w, ret |-> "None"]

get_tweak_status(w, tweak_name) == tweak_name \in w.applied_tweaks

clear_saved_tweaks_old(w, rm) ==
    IF w.file # Absent /\ rm # "ok" THEN [w |-> w, ret |-> "False"]
    ELSE [w |-> [w EXCEPT !.file = Absent, !.applied_tweaks = {},
                          !.tweak_history = <<>>, !.current_profile = None],
          ret |-> "True"]

\* clear_saved_tweaks that clears whatever the dialog answers
clear_saved_tweaks_noconfirm(w, result, rm) ==
    IF w.file # Absent /\ rm # "ok" THEN [w |-> w, ret |-> "False"]
    ELSE [w |-> [w EXCEPT !.file = Absent, !.applied_tweaks = {},
                          !.tweak_history = <<>>,
                          !.current_profile = None],
          ret |-> "True"]

\* result is the answer to the askyesno confirmation dialog
clear_saved_tweaks(w, result, rm) ==
    IF result
    THEN IF w.file # Absent /\ rm # "ok" THEN [w |-> w, ret |-> "False"]
         ELSE [w |-> [w EXCEPT !.file = Absent, !.applied_tweaks = {},
                               !.tweak_history = <<>>,
                               !.current_profile = None],
               ret |-> "True"]
    ELSE [w |-> w, ret |-> "True"]

\* export_tweaks that writes an empty 'applied_tweaks' list
export_tweaks_noapplied(w, io, order) ==
    LET doc == JObject(JList(<<>>), JList(w.tweak_history),
                       DumpProfile(w.current_profile), "export_timestamp",
                       Missing, Missing)
    IN  CASE io = "ok" -> [w |-> [w EXCEPT !.xfile = doc], ret |-> "True"]
          [] io = "open_fail" -> [w |-> w, ret |-> "False"]
          [] OTHER -> [w |-> [w EXCEPT !.xfile = Malformed], ret |-> "False"]

\* export_tweaks that writes tweaks_file as well as filename
export_tweaks_primary(w, io, order) ==
    LET doc == JObject(JList(order), JList(w.tweak_history),
                       DumpProfile(w.current_profile), "export_timestamp",
                       Missing, Missing)
    IN  CASE io = "ok" -> [w |-> [w EXCEPT !.xfile = doc, !.file = doc],
                           ret |-> "True"]
          [] io = "open_fail" -> [w |-> w, ret |-> "False"]
          [] OTHER -> [w |-> [w EXCEPT !.xfile = Malformed], ret |-> "False"]

\* export_tweaks(filename) with filename = ExportPath
export_tweaks(w, io, order) ==
    LET doc == JObject(JList(order), JList(w.tweak_history),
                       DumpProfile(w.current_profile), "export_timestamp",
                       Missing, Missing)
    IN  CASE io = "ok" -> [w |-> [w EXCEPT !.xfile = doc], ret |-> "True"]
          [] io = "open_fail" -> [w |-> w, ret |-> "False"]
          [] OTHER -> [w |-> [w EXCEPT !.xfile = Malformed], ret |-> "False"]

\* what open(filename, 'r') finds at an import path
ReadFile(w, filename) ==
    IF filename = ExportPath THEN w.xfile
    ELSE IF filename \in ForeignPaths THEN ForeignDocs[filename]
    ELSE Absent

\* import_tweaks that reads tweak_history and current_profile before
\* applied_tweaks
import_tweaks_reordered(w, filename, io, saveIo, order) ==
    LET doc == ReadFile(w, filename)
    IN  IF doc = Absent \/ io # "ok" \/ doc.kind # "object"
        THEN [w |-> w, ret |-> "False"]
        ELSE LET w2 == [w EXCEPT !.tweak_history = GetHistory(doc),
                                 !.current_profile = GetProfile(doc)]
             IN  IF SetRaises(doc) THEN [w |-> w2, ret |-> "False"]
                 ELSE [w |-> save_tweaks(
                                [w2 EXCEPT !.applied_tweaks = GetApplied(doc)],
                                saveIo, order).w,
                       ret |-> "True"]

\* import_tweaks that merges the file into the ledger (update / extend)
import_tweaks_merge(w, filename, io, saveIo, order) ==
    LET doc == ReadFile(w, filename)
    IN  IF doc = Absent \/ io # "ok" \/ doc.kind # "object"
        THEN [w |-> w, ret |-> "False"]
        ELSE IF SetRaises(doc) THEN [w |-> w, ret |-> "False"]
        ELSE LET w3 == [w EXCEPT
                          !.applied_tweaks = @ \cup GetApplied(doc),
                          !.tweak_history = @ \o GetHistory(doc),
                          !.current_profile = GetProfile(doc)]
                 order3 == CHOOSE o \in ListsOf(w3.applied_tweaks) : TRUE
             IN  [w |-> save_tweaks(w3, saveIo, order3).w, ret |-> "True"]

\* import_tweaks that gives up when its save_tweaks() call fails
import_tweaks_checked(w, filename, io, saveIo, order) ==
    LET doc == ReadFile(w, filename)
    IN  IF doc = Absent \/ io # "ok" \/ doc.kind # "object"
        THEN [w |-> w, ret |-> "False"]
        ELSE IF SetRaises(doc) THEN [w |-> w, ret |-> "False"]
        ELSE LET w3 == [w EXCEPT !.applied_tweaks = GetApplied(doc),
                                 !.tweak_history = GetHistory(doc),
                                 !.current_profile = GetProfile(doc)]
                 r == save_tweaks(w3, saveIo, order)
             IN  [w |-> r.w, ret |-> r.ret]

\* import_tweaks without its save_tweaks() call
import_tweaks_nosave(w, filename, io, saveIo, order) ==
    LET doc == ReadFile(w, filename)
    IN  IF doc = Absent \/ io # "ok" \/ doc.kind # "object"
        THEN [w |-> w, ret |-> "False"]
        ELSE IF SetRaises(doc) THEN [w |-> w, ret |-> "False"]
        ELSE [w |-> [w EXCEPT !.applied_tweaks = GetApplied(doc),
                              !.tweak_history = GetHistory(doc),
                              !.current_profile = GetProfile(doc)],
              ret |-> "True"]

\* io is the outcome of reading filename, saveIo that of the save_tweaks call
import_tweaks(w, filename, io, saveIo, order) ==
    LET doc == ReadFile(w, filename)
    IN  IF doc = Absent \/ io # "ok" \/ doc.kind # "object"
        THEN [w |-> w, ret |-> "False"]
        ELSE IF SetRaises(doc) THEN [w |-> w, ret |-> "False"]
        ELSE LET w3 == [w EXCEPT !.applied_tweaks = GetApplied(doc),
                                 !.tweak_history = GetHistory(doc),
                                 !.current_profile = GetProfile(doc)]
             IN  [w |-> save_tweaks(w3, saveIo, order).w, ret |-> "True"]

\* the applied_tweaks an import of filename installs (the set save_tweaks lists)
ImportedApplied(w, filename) ==
    LET doc == ReadFile(w, filename)
    IN  IF doc = Absent \/ doc.kind # "object" THEN w.applied_tweaks
        ELSE IF SetRaises(doc) THEN w.applied_tweaks
        ELSE GetApplied(doc)

\* ------------------------------------------------------ profile application
\* one 'if self.fn(): ... applied += 1' block of a profile function: the
\* tweak function it calls and the name it tracks the tweak under
Tracked(f, name) == [fn |-> f, track |-> name]
Call(f) == [fn |-> f, track |-> None]
\* one 'if self.x_var.get(): if self.fn(): ...' block of apply_tweaks_thread
Box(v, f) == [var |-> v, fn |-> f]

\* the tweak functions apply_quality_profile calls, in order, each with the
\* name it passes to track_tweak (None: it makes no track_tweak call)
QualityTweaks ==
    << Tracked("disable_visual_effects",
               "visual_effects_quality"),
       Tracked("optimize_graphics_quality_advanced",
               "graphics_quality_advanced"),
       Tracked("optimize_hardware_acceleration_advanced",
               "hardware_acceleration_advanced"),
       Tracked("optimize_windows_services_advanced",
               "windows_services_advanced"),
       Tracked("optimize_memory_compression_advanced",
               "memory_compression_advanced") >>

\* the tweak functions apply_performance_profile_impl calls, in order, each with the
\* name it passes to track_tweak (None: it makes no track_tweak call)
PerformanceTweaks ==
    << Tracked("optimize_cpu_affinity_advanced",
               "cpu_affinity_advanced"),
       Tracked("optimize_thread_priority_advanced",
               "thread_priority_advanced"),
       Tracked("optimize_turbo_boost_advanced",
               "turbo_boost_advanced"),
       Tracked("optimize_disk_performance_advanced",
               "disk_performance_advanced"),
       Tracked("optimize_network_performance_advanced",
               "network_performance_advanced") >>

\* the tweak functions apply_balanced_profile calls, in order, each with the
\* name it passes to track_tweak (None: it makes no track_tweak call)
BalancedTweaks ==
    << Tracked("disable_telemetry",
               "disable_telemetry"),
       Tracked("disable_cortana",
               "disable_cortana"),
       Tracked("optimize_windows_services_advanced",
               "windows_services_advanced"),
       Tracked("optimize_background_processes_advanced",
               "background_processes_advanced"),
       Tracked("optimize_startup_programs_advanced",
               "startup_programs_advanced") >>

\* the tweak functions apply_ultra_quality_profile calls, in order, each with the
\* name it passes to track_tweak (None: it makes no track_tweak call)
UltraQualityTweaks ==
    << Call("optimize_graphics_quality_advanced"),
       Call("optimize_hardware_acceleration_advanced"),
       Call("optimize_shader_cache_advanced"),
       Call("optimize_memory_compression_advanced") >>

\* the tweak functions apply_ultra_performance_profile calls, in order, each with the
\* name it passes to track_tweak (None: it makes no track_tweak call)
UltraPerformanceTweaks ==
    << Call("optimize_cpu_affinity_advanced"),
       Call("optimize_thread_priority_advanced"),
       Call("optimize_interrupt_affinity_advanced"),
       Call("optimize_turbo_boost_advanced"),
       Call("optimize_hyper_threading_advanced"),
       Call("optimize_disk_performance_advanced"),
       Call("optimize_network_performance_advanced"),
       Call("optimize_game_mode_advanced"),
       Call("optimize_gpu_settings_advanced") >>

\* the tweak functions apply_low_latency_profile calls, in order, each with the
\* name it passes to track_tweak (None: it makes no track_tweak call)
LowLatencyTweaks ==
    << Call("optimize_interrupt_affinity_advanced"),
       Call("optimize_thread_priority_advanced"),
       Call("optimize_network_performance_advanced"),
       Call("optimize_vsync_advanced"),
       Call("optimize_fullscreen_optimizations_advanced") >>

\* the tweak functions apply_ultra_low_latency_profile calls, in order, each with the
\* name it passes to track_tweak (None: it makes no track_tweak call)
UltraLowLatencyTweaks ==
    << Call("optimize_interrupt_affinity_advanced"),
       Call("optimize_thread_priority_advanced"),
       Call("optimize_cpu_parking_advanced"),
       Call("optimize_network_performance_advanced"),
       Call("optimize_vsync_advanced"),
       Call("optimize_fullscreen_optimizations_advanced"),
       Call("disable_game_dvr_advanced"),
       Call("disable_game_bar_advanced"),
       Call("disable_xbox_live_advanced") >>

\* the tweak functions apply_ultra_high_performance_profile calls, in order, each with the
\* name it passes to track_tweak (None: it makes no track_tweak call)
UltraHighPerformanceTweaks ==
    << Call("optimize_cpu_affinity_advanced"),
       Call("optimize_thread_priority_advanced"),
       Call("optimize_interrupt_affinity_advanced"),
       Call("optimize_turbo_boost_advanced"),
       Call("optimize_hyper_threading_advanced"),
       Call("optimize_memory_compression_advanced"),
       Call("optimize_page_file_advanced"),
       Call("optimize_disk_performance_advanced"),
       Call("optimize_network_performance_advanced"),
       Call("optimize_game_mode_advanced"),
       Call("optimize_gpu_settings_advanced"),
       Call("optimize_shader_cache_advanced"),
       Call("optimize_windows_services_advanced"),
       Call("optimize_background_processes_advanced"),
       Call("optimize_startup_programs_advanced"),
       Call("disable_telemetry"),
       Call("disable_cortana"),
       Call("disable_visual_effects"),
       Call("disable_animations"),
       Call("disable_transparency"),
       Call("disable_shadows"),
       Call("disable_smooth_scrolling"),
       Call("disable_font_smoothing"),
       Call("disable_clear_type") >>

\* the tweak functions apply_super_computer_profile calls after its apply_ultra_high_performance_profile() call, in order, each with the
\* name it passes to track_tweak (None: it makes no track_tweak call)
SuperComputerTweaks ==
    << Call("optimize_cpu_parking_advanced"),
       Call("optimize_vsync_advanced"),
       Call("optimize_fullscreen_optimizations_advanced"),
       Call("optimize_hardware_acceleration_advanced"),
       Call("disable_game_dvr_advanced"),
       Call("disable_game_bar_advanced"),
       Call("disable_xbox_live_advanced"),
       Call("disable_timeline"),
       Call("disable_activity_history"),
       Call("disable_location_tracking"),
       Call("disable_advertising_id"),
       Call("disable_tips"),
       Call("disable_dwm"),
       Call("disable_windows_update"),
       Call("disable_windows_store"),
       Call("disable_network_discovery"),
       Call("disable_network_sharing"),
       Call("disable_remote_assistance"),
       Call("disable_remote_desktop"),
       Call("disable_network_adapters"),
       Call("disable_wifi_sense"),
       Call("disable_user_account_control"),
       Call("disable_smart_screen"),
       Call("disable_windows_defender"),
       Call("disable_firewall"),
       Call("disable_bitlocker"),
       Call("disable_secure_boot"),
       Call("disable_tpm"),
       Call("disable_credential_guard"),
       Call("optimize_scheduled_tasks_advanced"),
       Call("optimize_system_restore_advanced"),
       Call("optimize_storage_sense_advanced"),
       Call("optimize_file_indexing_advanced"),
       Call("optimize_shadow_copies_advanced"),
       Call("optimize_recycle_bin_advanced"),
       Call("optimize_file_compression_advanced") >>

\* the checkbox blocks of apply_tweaks_thread, in order: the BooleanVar that
\* selects the tweak and the function called when it is set
ManualTweaks ==
    << Box("disable_telemetry_var",
           "disable_telemetry"),
       Box("disable_cortana_var",
           "disable_cortana"),
       Box("disable_windows_insider_var",
           "disable_windows_insider"),
       Box("disable_timeline_var",
           "disable_timeline"),
       Box("disable_activity_history_var",
           "disable_activity_history"),
       Box("disable_location_tracking_var",
           "disable_location_tracking"),
       Box("disable_advertising_id_var",
           "disable_advertising_id"),
       Box("disable_tips_var",
           "disable_tips"),
       Box("disable_visual_effects_var",
           "disable_visual_effects"),
       Box("disable_animations_var",
           "disable_animations"),
       Box("disable_transparency_var",
           "disable_transparency"),
       Box("disable_shadows_var",
           "disable_shadows"),
       Box("disable_smooth_scrolling_var",
           "disable_smooth_scrolling"),
       Box("disable_font_smoothing_var",
           "disable_font_smoothing"),
       Box("disable_clear_type_var",
           "disable_clear_type"),
       Box("disable_dwm_var",
           "disable_dwm"),
       Box("disable_windows_update_var",
           "disable_windows_update"),
       Box("disable_windows_store_var",
           "disable_windows_store"),
       Box("disable_network_discovery_var",
           "disable_network_discovery"),
       Box("disable_network_sharing_var",
           "disable_network_sharing"),
       Box("disable_remote_assistance_var",
           "disable_remote_assistance"),
       Box("disable_remote_desktop_var",
           "disable_remote_desktop"),
       Box("disable_network_adapters_var",
           "disable_network_adapters"),
       Box("disable_wifi_sense_var",
           "disable_wifi_sense"),
       Box("disable_user_account_control_var",
           "disable_user_account_control"),
       Box("disable_smart_screen_var",
           "disable_smart_screen"),
       Box("disable_windows_defender_var",
           "disable_windows_defender"),
       Box("disable_firewall_var",
           "disable_firewall"),
       Box("disable_bitlocker_var",
           "disable_bitlocker"),
       Box("disable_secure_boot_var",
           "disable_secure_boot"),
       Box("disable_tpm_var",
           "disable_tpm"),
       Box("disable_credential_guard_var",
           "disable_credential_guard"),
       Box("optimize_cpu_affinity_var",
           "optimize_cpu_affinity_advanced"),
       Box("optimize_thread_priority_var",
           "optimize_thread_priority_advanced"),
       Box("optimize_interrupt_affinity_var",
           "optimize_interrupt_affinity_advanced"),
       Box("optimize_cpu_parking_var",
           "optimize_cpu_parking_advanced"),
       Box("optimize_turbo_boost_var",
           "optimize_turbo_boost_advanced"),
       Box("optimize_hyper_threading_var",
           "optimize_hyper_threading_advanced"),
       Box("optimize_memory_compression_var",
           "optimize_memory_compression_advanced"),
       Box("optimize_page_file_var",
           "optimize_page_file_advanced"),
       Box("optimize_disk_performance_var",
           "optimize_disk_performance_advanced"),
       Box("optimize_network_performance_var",
           "optimize_network_performance_advanced"),
       Box("optimize_game_mode_var",
           "optimize_game_mode_advanced"),
       Box("optimize_gpu_settings_var",
           "optimize_gpu_settings_advanced"),
       Box("optimize_shader_cache_var",
           "optimize_shader_cache_advanced"),
       Box("optimize_graphics_quality_var",
           "optimize_graphics_quality_advanced"),
       Box("optimize_vsync_var",
           "optimize_vsync_advanced"),
       Box("optimize_fullscreen_optimizations_var",
           "optimize_fullscreen_optimizations_advanced"),
       Box("optimize_hardware_acceleration_var",
           "optimize_hardware_acceleration_advanced"),
       Box("optimize_game_dvr_var",
           "disable_game_dvr_advanced"),
       Box("optimize_game_bar_var",
           "disable_game_bar_advanced"),
       Box("optimize_xbox_live_var",
           "disable_xbox_live_advanced"),
       Box("optimize_windows_services_var",
           "optimize_windows_services_advanced"),
       Box("optimize_background_processes_var",
           "optimize_background_processes_advanced"),
       Box("optimize_startup_programs_var",
           "optimize_startup_programs_advanced"),
       Box("optimize_scheduled_tasks_var",
           "optimize_scheduled_tasks_advanced"),
       Box("optimize_system_restore_var",
           "optimize_system_restore_advanced"),
       Box("optimize_storage_sense_var",
           "optimize_storage_sense_advanced"),
       Box("optimize_file_indexing_var",
           "optimize_file_indexing_advanced"),
       Box("optimize_shadow_copies_var",
           "optimize_shadow_copies_advanced"),
       Box("optimize_recycle_bin_var",
           "optimize_recycle_bin_advanced"),
       Box("optimize_file_compression_var",
           "optimize_file_compression_advanced") >>

\* the values of the profile radio buttons
Profiles == {"quality", "performance", "balanced", "ultra_quality",
             "ultra_performance", "low_latency", "ultra_low_latency",
             "ultra_high_performance", "super_computer"}

\* list(self.applied_tweaks) inside a profile run: one order of the set, or
\* that order reversed
RECURSIVE SomeOrder(_)
SomeOrder(S) ==
    IF S = {} THEN <<>>
    ELSE LET x == CHOOSE y \in S : TRUE IN <<x>> \o SomeOrder(S \ {x})
Reverse(s) == [i \in 1..Len(s) |-> s[Len(s) + 1 - i]]
OrderOf(S, rev) == IF rev THEN Reverse(SomeOrder(S)) ELSE SomeOrder(S)

\* a profile function in progress: the world, the local counter 'applied'
\* and the tweak functions called so far
Started(w) == [w |-> w, applied |-> 0, invoked |-> <<>>]

\* a block that is skipped once an earlier tweak of the profile has failed
RunBlock_skip(st, tw, result, io, rev) ==
    IF st.applied < Len(st.invoked) THEN st
    ELSE IF result
    THEN [w |-> IF tw.track = None THEN st.w
                ELSE track_tweak(st.w, tw.track, TRUE, io,
                         OrderOf(st.w.applied_tweaks \cup {tw.track}, rev)).w,
          applied |-> st.applied + 1,
          invoked |-> Append(st.invoked, tw.fn)]
    ELSE [st EXCEPT !.invoked = Append(@, tw.fn)]

\* one block: call the tweak function; when it returns True, track it (where
\* the block has a track_tweak call) and count it
RunBlock(st, tw, result, io, rev) ==
    IF result
    THEN [w |-> IF tw.track = None THEN st.w
                ELSE track_tweak(st.w, tw.track, TRUE, io,
                         OrderOf(st.w.applied_tweaks \cup {tw.track}, rev)).w,
          applied |-> st.applied + 1,
          invoked |-> Append(st.invoked, tw.fn)]
    ELSE [st EXCEPT !.invoked = Append(@, tw.fn)]

\* the blocks of a profile function one after the other; results[i] is what
\* the i-th tweak function returns.  The list is run as its first half and
\* then its second half; the test on the first half's count (never more than
\* the number of calls) has the first half evaluated before the second.
RECURSIVE RunTweaks(_, _, _, _, _)
RunTweaks(st, tweaks, results, io, rev) ==
    LET n == Len(tweaks)
        h == n \div 2
    IN  IF n = 0 THEN st
        ELSE IF n = 1 THEN RunBlock(st, tweaks[1], results[1], io, rev)
        ELSE LET first == RunTweaks(st, SubSeq(tweaks, 1, h),
                                    SubSeq(results, 1, h), io, rev)
             IN  IF first.applied <= Len(first.invoked)
                 THEN RunTweaks(first, SubSeq(tweaks, h + 1, n),
                                SubSeq(results, h + 1, n), io, rev)
                 ELSE first

\* what a profile function returns: the world after it, its return value
\* 'applied' and the tweak functions it called
Returned(st) == [w |-> st.w, ret |-> st.applied, invoked |-> st.invoked]

apply_quality_profile(w, results, io, rev) ==
    Returned(RunTweaks(Started(w), QualityTweaks, results, io, rev))

apply_performance_profile_impl(w, results, io, rev) ==
    Returned(RunTweaks(Started(w), PerformanceTweaks, results, io, rev))

apply_balanced_profile(w, results, io, rev) ==
    Returned(RunTweaks(Started(w), BalancedTweaks, results, io, rev))

apply_ultra_quality_profile(w, results, io, rev) ==
    Returned(RunTweaks(Started(w), UltraQualityTweaks, results, io, rev))

apply_ultra_performance_profile(w, results, io, rev) ==
    Returned(RunTweaks(Started(w), UltraPerformanceTweaks, results, io, rev))

apply_low_latency_profile(w, results, io, rev) ==
    Returned(RunTweaks(Started(w), LowLatencyTweaks, results, io, rev))

apply_ultra_low_latency_profile(w, results, io, rev) ==
    Returned(RunTweaks(Started(w), UltraLowLatencyTweaks, results, io, rev))

apply_ultra_high_performance_profile(w, results, io, rev) ==
    Returned(RunTweaks(Started(w), UltraHighPerformanceTweaks, results, io,
                       rev))

\* apply_super_computer_profile that drops the count of its
\* apply_ultra_high_performance_profile() call ('applied =' for 'applied +=')
apply_super_computer_profile_own(w, results, io, rev) ==
    LET n == Len(UltraHighPerformanceTweaks)
        u == apply_ultra_high_performance_profile(w, SubSeq(results, 1, n),
                                                  io, rev)
        st == RunTweaks([w |-> u.w, applied |-> 0, invoked |-> u.invoked],
                        SuperComputerTweaks,
                        SubSeq(results, n + 1, Len(results)), io, rev)
    IN  Returned(st)

\* apply_super_computer_profile without its
\* apply_ultra_high_performance_profile() call
apply_super_computer_profile_alone(w, results, io, rev) ==
    LET n == Len(UltraHighPerformanceTweaks)
    IN  Returned(RunTweaks(Started(w), SuperComputerTweaks,
                           SubSeq(results, n + 1, Len(results)), io, rev))

\* results holds the returns of the ultra_high_performance tweak functions
\* followed by those of the functions super_computer calls itself
apply_super_computer_profile(w, results, io, rev) ==
    LET n == Len(UltraHighPerformanceTweaks)
        u == apply_ultra_high_performance_profile(w, SubSeq(results, 1, n),
                                                  io, rev)
        st == RunTweaks([w |-> u.w, applied |-> 0 + u.ret,
                         invoked |-> u.invoked],
                        SuperComputerTweaks,
                        SubSeq(results, n + 1, Len(results)), io, rev)
    IN  Returned(st)

\* the if/elif chain of apply_profile_thread
ProfileFunction(w, profile, results, io, rev) ==
    CASE profile = "quality" -> apply_quality_profile(w, results, io, rev)
      [] profile = "performance" ->
            apply_performance_profile_impl(w, results, io, rev)
      [] profile = "balanced" -> apply_balanced_profile(w, results, io, rev)
      [] profile = "ultra_quality" ->
            apply_ultra_quality_profile(w, results, io, rev)
      [] profile = "ultra_performance" ->
            apply_ultra_performance_profile(w, results, io, rev)
      [] profile = "low_latency" ->
            apply_low_latency_profile(w, results, io, rev)
      [] profile = "ultra_low_latency" ->
            apply_ultra_low_latency_profile(w, results, io, rev)
      [] profile = "ultra_high_performance" ->
            apply_ultra_high_performance_profile(w, results, io, rev)
      [] profile = "super_computer" ->
            apply_super_computer_profile(w, results, io, rev)

\* the blocks a profile runs, in order: those of the profile's function,
\* for super_computer after those of ultra_high_performance
TweaksOf(profile) ==
    CASE profile = "quality" -> QualityTweaks
      [] profile = "performance" -> PerformanceTweaks
      [] profile = "balanced" -> BalancedTweaks
      [] profile = "ultra_quality" -> UltraQualityTweaks
      [] profile = "ultra_performance" -> UltraPerformanceTweaks
      [] profile = "low_latency" -> LowLatencyTweaks
      [] profile = "ultra_low_latency" -> UltraLowLatencyTweaks
      [] profile = "ultra_high_performance" -> UltraHighPerformanceTweaks
      [] profile = "super_computer" ->
            UltraHighPerformanceTweaks \o SuperComputerTweaks

\* the number of tweak functions a profile calls
NumCalls(profile) == Len(TweaksOf(profile))

\* the number of track_tweak calls a profile function makes when every
\* tweak function returns True
NumTracked(profile) ==
    Cardinality({i \in DOMAIN TweaksOf(profile) :
                   TweaksOf(profile)[i].track # None})

\* apply_profile_thread that records the profile only when a tweak succeeded
apply_profile_thread_ifany(w, profile, results, io, rev) ==
    LET w1 == [w EXCEPT !.current_profile = profile]
        r == ProfileFunction(w1, profile, results, io, rev)
        name == "profile_" \o profile
        t == track_tweak(r.w, name, r.ret > 0, io,
                         OrderOf(r.w.applied_tweaks \cup {name}, rev))
    IN  [w |-> t.w, ret |-> "None", applied_tweaks |-> r.ret,
         invoked |-> r.invoked]

\* the worker of apply_performance_profile: applied_tweaks is the count it
\* reports in the results text
apply_profile_thread(w, profile, results, io, rev) ==
    LET w1 == [w EXCEPT !.current_profile = profile]
        r == ProfileFunction(w1, profile, results, io, rev)
        name == "profile_" \o profile
        t == track_tweak(r.w, name, TRUE, io,
                         OrderOf(r.w.applied_tweaks \cup {name}, rev))
    IN  [w |-> t.w, ret |-> "None", applied_tweaks |-> r.ret,
         invoked |-> r.invoked]

\* the worker of apply_tweaks: selected is the set of BooleanVars that are
\* set and results[i] what the function of the i-th block returns if it is
\* called; every selected function is called, the ones that return True are
\* counted, and the ledger is not touched
apply_tweaks(w, selected, results) ==
    LET blocks == [i \in DOMAIN ManualTweaks |->
                      [var |-> ManualTweaks[i].var, fn |-> ManualTweaks[i].fn,
                       result |-> results[i]]]
        IsSet(b) == b.var \in selected
        called == SelectSeq(blocks, IsSet)
    IN  [w |-> w, ret |-> "None",
         applied_tweaks |->
             Cardinality({i \in DOMAIN called : called[i].result}),
         invoked |-> [i \in DOMAIN called |-> called[i].fn],
         results |-> [i \in DOMAIN called |-> called[i].result]]

\* the four reset functions reset_tweaks_thread and reset_profile_thread
\* call, in order; none of them reads or writes the ledger
ResetFunctions ==
    << "reset_windows_tweaks", "reset_performance_tweaks",
       "reset_network_tweaks", "reset_security_tweaks" >>

\* the worker of reset_tweaks: results[i] is what the i-th reset function
\* returns, reset_tweaks the count it reports
reset_tweaks(w, results) ==
    [w |-> w, ret |-> "None",
     reset_tweaks |-> Cardinality({i \in DOMAIN ResetFunctions : results[i]}),
     invoked |-> ResetFunctions]

\* reset_performance_profile that also forgets the current profile
reset_performance_profile_forget(w, results) ==
    [w |-> [w EXCEPT !.current_profile = None], ret |-> "None",
     reset_tweaks |-> Cardinality({i \in DOMAIN ResetFunctions : results[i]}),
     invoked |-> ResetFunctions]

\* the worker of reset_performance_profile
reset_performance_profile(w, results) ==
    [w |-> w, ret |-> "None",
     reset_tweaks |-> Cardinality({i \in DOMAIN ResetFunctions : results[i]}),
     invoked |-> ResetFunctions]

\* ---------------------------------------------------------------- actions
\* An outcome is an input only where the call is made: reading and removing
\* happen only when os.path.exists(tweaks_file).
WriteOutcomes == {"ok", "open_fail", "write_fail"}
ReadOutcomes == IF file = Absent THEN {"ok"} ELSE {"ok", "read_fail"}
RemoveOutcomes == IF file = Absent THEN {"ok"} ELSE {"ok", "remove_fail"}

\* install the result r of an operation; saved/exported say whether the
\* operation serialised the resulting ledger to tweaks_file / ExportPath
FinishRun(op, arg, flag, io, r, saved, exported, called) ==
    /\ applied_tweaks' = r.w.applied_tweaks
    /\ tweak_history' = r.w.tweak_history
    /\ current_profile' = r.w.current_profile
    /\ last_resolution' = r.w.last_resolution
    /\ last_refresh_rate' = r.w.last_refresh_rate
    /\ file' = r.w.file
    /\ xfile' = r.w.xfile
    /\ written' = [file |-> IF saved THEN Snap(r.w)
                            ELSE IF r.w.file = file THEN written.file
                            ELSE NoSnap,
                   xfile |-> IF exported THEN Snap(r.w)
                             ELSE IF r.w.xfile = xfile THEN written.xfile
                             ELSE NoSnap]
    /\ last' = [op |-> op, arg |-> arg, flag |-> flag, io |-> io,
                ret |-> r.ret]
    /\ pre' = World
    /\ run' = called
    /\ UNCHANGED <<workers, race>>

\* an operation that calls no tweak function
Finish(op, arg, flag, io, r, saved, exported) ==
    FinishRun(op, arg, flag, io, r, saved, exported, NoRun)

\* a process starts: the state of the machine before it is the file only
Boot(f) == [applied_tweaks |-> {}, tweak_history |-> <<>>,
            current_profile |-> None, last_resolution |-> DefaultResolution,
            last_refresh_rate |-> DefaultRefreshRate,
            file |-> f, xfile |-> Absent]

InitialFiles == {Absent} \cup Range(ForeignDocs)

Init ==
    \E f \in InitialFiles :
      \E io \in (IF f = Absent THEN {"ok"} ELSE {"ok", "read_fail"}) :
        LET r == FrogOptimizer_init(Boot(f), io)
        IN  /\ applied_tweaks = r.w.applied_tweaks
            /\ tweak_history = r.w.tweak_history
            /\ current_profile = r.w.current_profile
            /\ last_resolution = r.w.last_resolution
            /\ last_refresh_rate = r.w.last_refresh_rate
            /\ file = f
            /\ xfile = Absent
            /\ written = [file |-> NoSnap, xfile |-> NoSnap]
            /\ last = [op |-> "__init__", arg |-> "", flag |-> FALSE,
                       io |-> io, ret |-> r.ret]
            /\ pre = Boot(f)
            /\ run = NoRun
            /\ workers = [t \in WorkerIds |-> IdleWorker]
            /\ race = NoRace

\* the process exits and a new one is started: __init__ runs again
Restart ==
    \E io \in ReadOutcomes :
        Finish("__init__", "", FALSE, io, FrogOptimizer_init(World, io),
               FALSE, FALSE)

SaveTweaks ==
    \E io \in WriteOutcomes, order \in ListsOf(applied_tweaks) :
        Finish("save_tweaks", "", FALSE, io,
               save_tweaks(World, io, order), io = "ok", FALSE)

LoadSavedTweaks ==
    \E io \in ReadOutcomes :
        Finish("load_saved_tweaks", "", FALSE, io,
               load_saved_tweaks(World, io), FALSE, FALSE)

\* list(self.applied_tweaks) is evaluated only by the save_tweaks call of a
\* successful track_tweak
TrackTweak ==
    \E tweak_name \in TweakNames, success \in BOOLEAN :
      \E io \in (IF success THEN WriteOutcomes ELSE {"write_fail"}) :
        /\ success => Len(tweak_history) < MaxHist
        /\ \E order \in (IF success
                          THEN ListsOf(applied_tweaks \cup {tweak_name})
                          ELSE {<<>>}) :
              Finish("track_tweak", tweak_name, success, io,
                     track_tweak(World, tweak_name, success, io, order),
                     success /\ io = "ok", FALSE)

ClearSavedTweaks ==
    \E result \in BOOLEAN :
      \E rm \in (IF result THEN RemoveOutcomes ELSE {"ok"}) :
        Finish("clear_saved_tweaks", "", result, rm,
               clear_saved_tweaks(World, result, rm), FALSE, FALSE)

ClearSavedTweaksOld ==
    \E rm \in RemoveOutcomes :
        Finish("clear_saved_tweaks_old", "", TRUE, rm,
               clear_saved_tweaks_old(World, rm), FALSE, FALSE)

ExportTweaks ==
    \E io \in WriteOutcomes, order \in ListsOf(applied_tweaks) :
        Finish("export_tweaks", ExportPath, FALSE, io,
               export_tweaks(World, io, order), FALSE, io = "ok")

\* import_tweaks_dialog with the file the user picked; saveIo matters only
\* when the import gets as far as save_tweaks
ImportFrom(paths) ==
    \E filename \in paths :
      \E io \in (IF ReadFile(World, filename) = Absent THEN {"ok"}
                 ELSE {"ok", "read_fail"}) :
        LET reaches == import_tweaks(World, filename, io, "ok",
                                     <<>>).ret = "True"
        IN  \E saveIo \in (IF reaches THEN WriteOutcomes ELSE {"ok"}) :
            \E order \in ListsOf(ImportedApplied(World, filename)) :
                LET r == import_tweaks(World, filename, io, saveIo, order)
                IN  Finish("import_tweaks", filename, saveIo = "ok", io, r,
                           r.ret = "True" /\ saveIo = "ok", FALSE)

\* a file not written by the program, or no file at all
ImportTweaks == ImportFrom(ForeignPaths \cup {"no_such_file.json"})
\* the file export_tweaks wrote
ImportBackup == ImportFrom({ExportPath})

Next ==
    \/ Restart
    \/ SaveTweaks
    \/ LoadSavedTweaks
    \/ TrackTweak
    \/ ClearSavedTweaks
    \/ ClearSavedTweaksOld
    \/ ImportTweaks

Spec == Init /\ [][Next]_vars

\* the export scenarios: the ledger is built by tracking, exported, lost
\* with the process, and imported back by the next one
NextExport ==
    \/ Restart
    \/ TrackTweak
    \/ ExportTweaks
    \/ ImportBackup

\* a first run: no persistence file yet
InitExport == Init /\ file = Absent

SpecExport == InitExport /\ [][NextExport]_vars

\* what the tweak functions of one run return: all succeed, all fail, only
\* the first fails, only the last fails, every other one fails
FailSets(n) == {{}, 1..n, {1}, {n}, {i \in 1..n : i % 2 = 1}}
ResultPatterns(n) == {[i \in 1..n |-> i \notin F] : F \in FailSets(n)}

\* the profile applications a history records: each one ends with a
\* track_tweak("profile_<name>", True)
ProfileRuns(h) ==
    Cardinality({i \in DOMAIN h :
                   h[i].tweak \in {"profile_" \o p : p \in Profiles}})

\* the 'Apply Profile' button with the radio button on profile; the order
\* of list(self.applied_tweaks) is an input only where the set has two
\* elements or more
ApplyPerformanceProfile ==
    /\ ProfileRuns(tweak_history) < MaxRuns
    /\ \E profile \in Profiles, io \in WriteOutcomes :
         \E results \in ResultPatterns(NumCalls(profile)),
            rev \in (IF applied_tweaks = {} /\ NumTracked(profile) = 0
                     THEN {FALSE} ELSE BOOLEAN) :
            LET r == apply_profile_thread(World, profile, results, io, rev)
            IN  FinishRun("apply_performance_profile", profile, TRUE, io, r,
                          io = "ok", FALSE,
                          [op |-> "apply_performance_profile",
                           invoked |-> r.invoked, results |-> results,
                           applied_tweaks |-> r.applied_tweaks])

\* the checkboxes that are set when 'Apply Tweaks' is pressed: none, all,
\* the first, the last, every other one
Selections ==
    LET vs == [i \in DOMAIN ManualTweaks |-> ManualTweaks[i].var]
    IN  {{}, Range(vs), {vs[1]}, {vs[Len(vs)]},
         {vs[i] : i \in {j \in DOMAIN vs : j % 2 = 1}}}

\* the 'Apply Tweaks' button
ApplyTweaks ==
    \E selected \in Selections :
      \E results \in ResultPatterns(Len(ManualTweaks)) :
        LET r == apply_tweaks(World, selected, results)
        IN  FinishRun("apply_tweaks", "", FALSE, "ok", r, FALSE, FALSE,
                      [op |-> "apply_tweaks", invoked |-> r.invoked,
                       results |-> r.results,
                       applied_tweaks |-> r.applied_tweaks])

\* the profile scenarios: the process starts with no persistence file or
\* with a readable one, and profiles are applied
NextProfile == ApplyPerformanceProfile

InitProfile ==
    /\ Init
    /\ last.io = "ok"
    /\ file \in {Absent, ForeignDocs.applied_only_json, ForeignDocs.full_json}

SpecProfile == InitProfile /\ [][NextProfile]_vars

\* the 'Reset All Tweaks' button
ResetTweaks ==
    \E results \in ResultPatterns(Len(ResetFunctions)) :
        LET r == reset_tweaks(World, results)
        IN  FinishRun("reset_tweaks", "", FALSE, "ok", r, FALSE, FALSE,
                      [op |-> "reset_tweaks", invoked |-> r.invoked,
                       results |-> results, reset_tweaks |-> r.reset_tweaks])

\* the 'Reset to Default' button of the profiles
ResetPerformanceProfile ==
    \E results \in ResultPatterns(Len(ResetFunctions)) :
        LET r == reset_performance_profile(World, results)
        IN  FinishRun("reset_performance_profile", "", FALSE, "ok", r,
                      FALSE, FALSE,
                      [op |-> "reset_performance_profile",
                       invoked |-> r.invoked, results |-> results,
                       reset_tweaks |-> r.reset_tweaks])

\* the manual scenarios: tweaks are applied from the checkboxes, tracked by
\* direct track_tweak calls and reset, and the process is restarted
NextManual ==
    \/ Restart
    \/ TrackTweak
    \/ ApplyTweaks
    \/ ResetTweaks
    \/ ResetPerformanceProfile

SpecManual == Init /\ [][NextManual]_vars

\* the file scenarios: every ledger operation that reads, writes or removes
\* a file, with every outcome of the file system
NextFiles ==
    \/ SaveTweaks
    \/ LoadSavedTweaks
    \/ ExportTweaks
    \/ ImportTweaks
    \/ ImportBackup
    \/ ClearSavedTweaks

SpecFiles == Init /\ [][NextFiles]_vars

\* ------------------------------------------------------- worker threads
\* apply_performance_profile starts a thread per press of the button and
\* nothing keeps a second press from starting a second thread while the
\* first still runs; save_tweaks takes no lock.  A step of a thread is one
\* statement of track_tweak or save_tweaks; the tweak functions a worker
\* calls between two track_tweak calls touch neither the ledger nor the
\* file and are not steps.

\* the profiles the button is pressed with: one whose function calls
\* track_tweak and one whose function does not
RaceProfiles == {"quality", "low_latency"}
\* what the tweak functions of one worker return: all fail, or only the
\* first succeeds
SuccPatterns(n) == {[i \in 1..n |-> i <= k] : k \in {0, 1}}

\* the track_tweak calls of one apply_profile_thread, in order: one per
\* tracked tweak function that returned True, then the profile's own
TrackCalls(profile, results) ==
    LET tw == TweaksOf(profile)
        hit == SelectSeq([i \in DOMAIN tw |-> i],
                         LAMBDA i : tw[i].track # None /\ results[i])
    IN  [k \in DOMAIN hit |-> tw[hit[k]].track] \o <<"profile_" \o profile>>

\* the length in bytes of what json.dump(tweak_data, f, indent=2) writes
\* for the three ledger values; the other four values (timestamp,
\* system_info, last_resolution, last_refresh_rate) and the seven keys take
\* the same number of bytes in every write of one process
RECURSIVE SumTo(_, _)
SumTo(f, n) == IF n = 0 THEN 0 ELSE f[n] + SumTo(f, n - 1)
TimestampBytes == 21                   \* "YYYY-mm-dd HH:MM:SS" in quotes
StrBytes(s) == Len(s) + 2
\* a list at nesting depth 1: every item on a line of its own, indented by
\* four spaces, with a comma after every item but the last
ListBytes(sizes) ==
    IF sizes = <<>> THEN 2
    ELSE 1 + SumTo(sizes, Len(sizes)) + 5 * Len(sizes) + (Len(sizes) - 1) + 3
\* a history record: three keys on lines indented by six spaces
RecordBytes(r) ==
    1 + (7 + 9 + StrBytes(r.tweak)) + 1 + (7 + 13 + TimestampBytes) + 1
      + (7 + 11 + IF r.success THEN 4 ELSE 5) + 6
Bytes(doc) ==
    (IF doc.applied_tweaks.t = "list"
     THEN ListBytes([i \in DOMAIN doc.applied_tweaks.v |->
                        StrBytes(doc.applied_tweaks.v[i])])
     ELSE 0)
    + (IF doc.tweak_history.t = "list"
       THEN ListBytes([i \in DOMAIN doc.tweak_history.v |->
                          RecordBytes(doc.tweak_history.v[i])])
       ELSE 0)
    + (CASE doc.current_profile.t = "str" -> StrBytes(doc.current_profile.v)
         [] doc.current_profile.t = "null" -> 4
         [] OTHER -> 0)

\* file contents that only unsynchronised writers produce: a file of length
\* zero, and the document head followed by the end of the longer document
\* tail that was in the file before
Empty == [kind |-> "empty"]
Torn(head, tail) == [kind |-> "torn", head |-> head, tail |-> tail]
Size(f) ==
    CASE f.kind = "object" -> Bytes(f)
      [] f.kind = "torn" -> Bytes(f.tail)
      [] OTHER -> 0

\* open(self.tweaks_file, 'w') that does not truncate
open_w_keep(f) == IF f = Absent THEN Empty ELSE f

\* open(self.tweaks_file, 'w'): the file is created or truncated to length
\* zero, and the new handle writes from offset zero
open_w(f) == Empty

\* the bytes of doc written at offset zero of a file holding old: what lies
\* beyond the end of doc stays
Overlay(old, doc) ==
    IF Size(old) <= Bytes(doc) THEN doc
    ELSE Torn(doc, IF old.kind = "torn" THEN old.tail ELSE old)

\* a handle on the file: the worker is between open and the end of the
\* with block, and the file has not been removed since
HoldsFile(w) == w.pc \in {"dump", "close"} /\ ~w.unlinked

\* track_tweak returns: the worker goes on to its next track_tweak call
NextCall(w) ==
    LET rest == Tail(w.todo)
    IN  [w EXCEPT !.todo = rest,
                  !.pc = IF rest = <<>> THEN "done" ELSE "add",
                  !.list = <<>>, !.p = None, !.buf = NoDoc,
                  !.unlinked = FALSE]

Ledger == <<applied_tweaks, tweak_history, current_profile>>
Display == <<last_resolution, last_refresh_rate>>
History == <<xfile, written, last, pre, run>>

\* the 'Apply Profile' button: threading.Thread(target=apply_profile_thread)
StartWorker(t) ==
    /\ workers[t].pc = "idle"
    /\ \E profile \in RaceProfiles :
         \E results \in SuccPatterns(NumCalls(profile)) :
            workers' = [workers EXCEPT ![t] =
                          [IdleWorker EXCEPT
                              !.pc = "set_profile", !.profile = profile,
                              !.todo = TrackCalls(profile, results),
                              !.late = race.cleared]]
    /\ UNCHANGED <<Ledger, Display, History, file, race>>

\* self.current_profile = profile
SetProfile(t) ==
    /\ workers[t].pc = "set_profile"
    /\ current_profile' = workers[t].profile
    /\ workers' = [workers EXCEPT ![t].pc = "add"]
    /\ UNCHANGED <<applied_tweaks, tweak_history, Display, History, file,
                   race>>

\* track_tweak: self.applied_tweaks.add(tweak_name)
AddTweak(t) ==
    /\ workers[t].pc = "add"
    /\ applied_tweaks' = applied_tweaks \cup {Head(workers[t].todo)}
    /\ workers' = [workers EXCEPT ![t].pc = "append"]
    /\ UNCHANGED <<tweak_history, current_profile, Display, History, file,
                   race>>

\* track_tweak: self.tweak_history.append({...})
AppendRecord(t) ==
    /\ workers[t].pc = "append"
    /\ tweak_history' = Append(tweak_history,
                               TweakRecord(Head(workers[t].todo)))
    /\ workers' = [workers EXCEPT ![t].pc = "snap_applied"]
    /\ UNCHANGED <<applied_tweaks, current_profile, Display, History, file,
                   race>>

\* save_tweaks: 'applied_tweaks': list(self.applied_tweaks) copies the set;
\* 'tweak_history': self.tweak_history copies nothing, the dictionary
\* refers to the list the ledger holds
SnapApplied(t) ==
    /\ workers[t].pc = "snap_applied"
    /\ \E rev \in (IF Cardinality(applied_tweaks) < 2 THEN {FALSE}
                   ELSE BOOLEAN) :
         workers' = [workers EXCEPT
                        ![t].pc = "snap_profile",
                        ![t].list = OrderOf(applied_tweaks, rev)]
    /\ UNCHANGED <<Ledger, Display, History, file, race>>

\* save_tweaks: 'current_profile': self.current_profile
SnapProfile(t) ==
    /\ workers[t].pc = "snap_profile"
    /\ workers' = [workers EXCEPT ![t].pc = "open",
                                  ![t].p = current_profile]
    /\ UNCHANGED <<Ledger, Display, History, file, race>>

\* save_tweaks: with open(self.tweaks_file, 'w') as f; a failure is caught
\* by save_tweaks, which returns False to track_tweak
OpenFile(t) ==
    /\ workers[t].pc = "open"
    /\ \E io \in {"ok", "open_fail"} :
         IF io = "ok"
         THEN /\ file' = open_w(file)
              /\ workers' = [workers EXCEPT ![t].pc = "dump",
                                            ![t].unlinked = FALSE]
              /\ race' = [race EXCEPT
                            !.overlap = @ \/ \E u \in WorkerIds \ {t} :
                                                HoldsFile(workers[u])]
         ELSE /\ workers' = [workers EXCEPT
                                ![t] = [NextCall(@) EXCEPT !.failed = TRUE]]
              /\ UNCHANGED <<file, race>>
    /\ UNCHANGED <<Ledger, Display, History>>

\* save_tweaks: json.dump(tweak_data, f, indent=2) serialises the copied
\* list, the history list as it is now, and the profile read before; the
\* text goes to the buffer of f and reaches the file now (flushed: the
\* buffer filled up) or when f is closed
DumpJson(t) ==
    /\ workers[t].pc = "dump"
    /\ \E flushed \in BOOLEAN :
         LET doc == JObject(JList(workers[t].list), JList(tweak_history),
                            DumpProfile(workers[t].p), "timestamp",
                            DumpResolution(last_resolution),
                            JInt(last_refresh_rate))
         IN  IF flushed
             THEN /\ file' = IF workers[t].unlinked THEN file
                             ELSE Overlay(file, doc)
                  /\ workers' = [workers EXCEPT ![t].pc = "close"]
             ELSE /\ file' = file
                  /\ workers' = [workers EXCEPT ![t].pc = "close",
                                                ![t].buf = doc]
    /\ UNCHANGED <<Ledger, Display, History, race>>

\* save_tweaks: the with block ends, f is closed and its buffer written;
\* save_tweaks returns True and track_tweak returns
CloseFile(t) ==
    /\ workers[t].pc = "close"
    /\ file' = IF workers[t].buf = NoDoc \/ workers[t].unlinked THEN file
               ELSE Overlay(file, workers[t].buf)
    /\ workers' = [workers EXCEPT ![t] = NextCall(@)]
    /\ UNCHANGED <<Ledger, Display, History, race>>

\* the 'Clear Saved Tweaks' button, pressed on the GUI thread while workers
\* run and confirmed in the dialog; a removed file stays open for the
\* workers that hold it, and what they write no longer reaches tweaks_file
ClearWhileRunning ==
    /\ \E t \in WorkerIds : workers[t].pc \notin {"idle", "done"}
    /\ ~race.cleared
    /\ \E rm \in RemoveOutcomes :
         LET r == clear_saved_tweaks(World, TRUE, rm)
         IN  /\ applied_tweaks' = r.w.applied_tweaks
             /\ tweak_history' = r.w.tweak_history
             /\ current_profile' = r.w.current_profile
             /\ file' = r.w.file
             /\ workers' = [t \in WorkerIds |->
                              IF r.ret = "True" /\ HoldsFile(workers[t])
                              THEN [workers[t] EXCEPT !.unlinked = TRUE]
                              ELSE workers[t]]
             /\ race' = [race EXCEPT !.cleared = r.ret = "True"]
    /\ UNCHANGED <<Display, History>>

NextThreads ==
    \/ \E t \in WorkerIds :
         \/ StartWorker(t)
         \/ SetProfile(t)
         \/ AddTweak(t)
         \/ AppendRecord(t)
         \/ SnapApplied(t)
         \/ SnapProfile(t)
         \/ OpenFile(t)
         \/ DumpJson(t)
         \/ CloseFile(t)
    \/ ClearWhileRunning

\* the process starts with no persistence file or with a readable one
InitThreads ==
    /\ Init
    /\ last.io = "ok"
    /\ file \in {Absent, ForeignDocs.applied_only_json}

SpecThreads == InitThreads /\ [][NextThreads]_vars

\* ------------------------------------------------------------ properties
Applied(h) == {h[i].tweak : i \in {j \in DOMAIN h : h[j].success}}
IsOp(l, op) == l.op = op
TrackedOk(l) == l.op = "track_tweak" /\ l.flag

\* C1: a successful save_tweaks() followed, with no other write to the
\* persistence file in between, by load_saved_tweaks() reproduces the
\* applied_tweaks set, the tweak_history sequence in order and the
\* current_profile that were saved.
C1_SaveLoadRoundTrip ==
    (last.op = "load_saved_tweaks" /\ last.ret = "True"
        /\ written.file # NoSnap)
    => /\ applied_tweaks = written.file.applied_tweaks
       /\ tweak_history = written.file.tweak_history
       /\ current_profile = written.file.current_profile

C1_Witness ==
    /\ last.op = "load_saved_tweaks" /\ last.ret = "True"
    /\ written.file # NoSnap
    /\ Cardinality(applied_tweaks) = 2
    /\ Len(tweak_history) = 2
    /\ pre.applied_tweaks # applied_tweaks
    /\ pre.tweak_history # tweak_history

\* C2: two consecutive track_tweak(name, True) calls with the same name add
\* name to applied_tweaks once (the set grows by at most one element in
\* total) and make tweak_history longer by exactly two entries, both naming
\* that tweak.
C2_TrackTwice ==
    [][ (TrackedOk(last) /\ TrackedOk(last') /\ last'.arg = last.arg)
        => LET n == Len(pre.tweak_history)
           IN  /\ applied_tweaks' = pre.applied_tweaks \cup {last.arg}
               /\ Cardinality(applied_tweaks')
                     <= Cardinality(pre.applied_tweaks) + 1
               /\ Len(tweak_history') = n + 2
               /\ SubSeq(tweak_history', 1, n) = pre.tweak_history
               /\ tweak_history'[n + 1].tweak = last.arg
               /\ tweak_history'[n + 2].tweak = last.arg ]_vars

C2_Witness ==
    /\ TrackedOk(last)
    /\ last.arg \in pre.applied_tweaks
    /\ Len(pre.tweak_history) = 1 /\ pre.tweak_history[1].tweak = last.arg
    /\ Len(tweak_history) = 2 /\ tweak_history[2].tweak = last.arg
    /\ applied_tweaks = {last.arg}

\* C3: clear (clear_saved_tweaks once confirmed, and clear_saved_tweaks_old)
\* always ends with applied_tweaks empty, tweak_history empty,
\* current_profile = None and the persistence file absent, whatever the
\* prior state and whether or not the file existed or could be removed.
C3_ClearAlwaysClears ==
    (last.op \in {"clear_saved_tweaks", "clear_saved_tweaks_old"} /\ last.flag)
    => /\ applied_tweaks = {}
       /\ tweak_history = <<>>
       /\ current_profile = None
       /\ file = Absent

\* C4: a successful import_tweaks(path) replaces and never merges: the three
\* ledger fields are exactly what the file stores (a missing key giving the
\* empty set, the empty list, None) and nothing of the ledger before the
\* import survives unless the file has it too.
C4_ImportReplaces ==
    (last.op = "import_tweaks" /\ last.ret = "True")
    => LET doc == ReadFile(pre, last.arg)
           inFile == IF doc.applied_tweaks = Missing THEN {}
                     ELSE {doc.applied_tweaks.v[i] :
                             i \in DOMAIN doc.applied_tweaks.v}
       IN  /\ applied_tweaks = inFile
           /\ tweak_history = IF doc.tweak_history = Missing THEN <<>>
                              ELSE doc.tweak_history.v
           /\ current_profile =
                 IF doc.current_profile.t = "str" THEN doc.current_profile.v
                 ELSE None
           /\ \A x \in pre.applied_tweaks \ inFile : x \notin applied_tweaks
           /\ \A i \in DOMAIN tweak_history :
                 tweak_history[i] = doc.tweak_history.v[i]

C4_Witness ==
    /\ last.op = "import_tweaks" /\ last.ret = "True"
    /\ pre.applied_tweaks = {"disable_telemetry"}
    /\ Len(pre.tweak_history) = 1
    /\ applied_tweaks = {"disable_cortana"}
    /\ tweak_history = <<>>

\* C5: restart scenario.  With no persistence file the constructor's
\* load_saved_tweaks() raises nothing and leaves the ledger empty; from that
\* state track_tweak(n, True) gives applied_tweaks = {n}, one history entry
\* and a written file; a new process that then constructs the application
\* and loads that file recovers the same applied_tweaks and tweak_history.
C5_RestartScenario ==
    [][ /\ (last'.op = "__init__" /\ file = Absent)
           => /\ last'.ret = "None"
              /\ applied_tweaks' = {} /\ tweak_history' = <<>>
              /\ current_profile' = None
        /\ (applied_tweaks = {} /\ tweak_history = <<>> /\ file = Absent
               /\ TrackedOk(last') /\ last'.io = "ok")
           => /\ applied_tweaks' = {last'.arg}
              /\ Len(tweak_history') = 1
              /\ tweak_history'[1].tweak = last'.arg
              /\ file'.kind = "object"
        /\ (TrackedOk(last) /\ last.io = "ok"
               /\ pre.applied_tweaks = {} /\ pre.tweak_history = <<>>
               /\ pre.file = Absent
               /\ last'.op = "__init__" /\ last'.io = "ok")
           => /\ applied_tweaks' = {last.arg}
              /\ applied_tweaks' = applied_tweaks
              /\ Len(tweak_history') = 1
              /\ tweak_history' = tweak_history ]_vars

C5_Witness ==
    /\ last.op = "__init__" /\ last.io = "ok"
    /\ written.file # NoSnap
    /\ pre.file = file
    /\ Cardinality(applied_tweaks) = 1
    /\ Len(tweak_history) = 1
    /\ tweak_history[1].tweak \in applied_tweaks
    /\ pre.applied_tweaks = applied_tweaks
    /\ pre.tweak_history = tweak_history

\* C6: export_tweaks(p) followed by import_tweaks(p) on a fresh (empty)
\* ledger yields an applied_tweaks set equal to the exported one.
C6_ExportImportRoundTrip ==
    (last.op = "import_tweaks" /\ last.arg = ExportPath /\ last.ret = "True"
        /\ written.xfile # NoSnap
        /\ pre.applied_tweaks = {} /\ pre.tweak_history = <<>>
        /\ pre.current_profile = None)
    => applied_tweaks = written.xfile.applied_tweaks

C6_Witness ==
    /\ last.op = "import_tweaks" /\ last.arg = ExportPath
    /\ last.ret = "True"
    /\ written.xfile # NoSnap
    /\ pre.applied_tweaks = {} /\ pre.tweak_history = <<>>
    /\ pre.current_profile = None
    /\ Cardinality(applied_tweaks) = 2

\* C7: in every reachable ledger state applied_tweaks is a subset of the
\* tweak names that tweak_history holds in an entry with success = true.
C7_AppliedSubsetOfHistory == applied_tweaks \subseteq Applied(tweak_history)

\* C8: track_tweak(name, False) is a no-op: applied_tweaks, tweak_history,
\* current_profile and the persistence file are unchanged and save_tweaks is
\* not called.
C8_TrackFalseNoOp ==
    (last.op = "track_tweak" /\ ~last.flag)
    => /\ applied_tweaks = pre.applied_tweaks
       /\ tweak_history = pre.tweak_history
       /\ current_profile = pre.current_profile
       /\ file = pre.file

C8_Witness ==
    /\ last.op = "track_tweak" /\ ~last.flag
    /\ last.io = "write_fail"
    /\ last.arg \notin applied_tweaks
    /\ applied_tweaks # {}
    /\ file.kind = "object"

\* C9: track_tweak(name, True) adds name to applied_tweaks, appends one new
\* record {tweak: name, timestamp, success: True} at the end of
\* tweak_history and then saves: when the write succeeds the persistence
\* file holds the in-memory applied_tweaks, tweak_history and
\* current_profile.
C9_TrackTrueRecordsAndSaves ==
    TrackedOk(last)
    => /\ last.arg \in applied_tweaks
       /\ applied_tweaks = pre.applied_tweaks \cup {last.arg}
       /\ Len(tweak_history) = Len(pre.tweak_history) + 1
       /\ SubSeq(tweak_history, 1, Len(pre.tweak_history)) = pre.tweak_history
       /\ tweak_history[Len(tweak_history)] =
             [tweak |-> last.arg, timestamp |-> Timestamp, success |-> TRUE]
       /\ last.io = "ok"
          => /\ file.kind = "object"
             /\ file.applied_tweaks.t = "list"
             /\ {file.applied_tweaks.v[i] : i \in DOMAIN file.applied_tweaks.v}
                   = applied_tweaks
             /\ file.tweak_history = [t |-> "list", v |-> tweak_history]
             /\ \/ file.current_profile = JNull /\ current_profile = None
                \/ /\ file.current_profile.t = "str"
                   /\ file.current_profile.v = current_profile
                   /\ current_profile # None

C9_Witness ==
    /\ TrackedOk(last) /\ last.io = "ok"
    /\ last.arg \notin pre.applied_tweaks
    /\ Cardinality(applied_tweaks) = 2
    /\ Len(tweak_history) = 2
    /\ current_profile # None
    /\ pre.file # file

\* C10: load_saved_tweaks fails soft and atomically: on a read or parse
\* error (unreadable file, malformed JSON, a field of the wrong type such as
\* a null last_resolution) it returns a failure result without raising and
\* leaves applied_tweaks, tweak_history and current_profile at their prior
\* values.
C10_LoadFailsAtomically ==
    (last.op = "load_saved_tweaks" /\ last.ret # "True")
    => /\ last.ret = "False"
       /\ applied_tweaks = pre.applied_tweaks
       /\ tweak_history = pre.tweak_history
       /\ current_profile = pre.current_profile

\* C11: when the persistence file exists (a readable JSON object whose
\* fields, where present, have the types save_tweaks writes) but lacks a
\* field, load_saved_tweaks succeeds and sets that field to its default
\* (applied_tweaks to the empty set, tweak_history to the empty list,
\* current_profile to None, last_resolution to (1920, 1080),
\* last_refresh_rate to 60), while a field that is present takes the file's
\* value.
C11_LoadDefaults ==
    (last.op = "load_saved_tweaks" /\ last.io = "ok"
        /\ file.kind = "object"
        /\ file.applied_tweaks.t \in {"missing", "list"}
        /\ file.last_resolution.t \in {"missing", "list"})
    => /\ last.ret = "True"
       /\ applied_tweaks =
             IF file.applied_tweaks = Missing THEN {}
             ELSE {file.applied_tweaks.v[i] : i \in DOMAIN file.applied_tweaks.v}
       /\ tweak_history =
             IF file.tweak_history = Missing THEN <<>>
             ELSE file.tweak_history.v
       /\ current_profile =
             IF file.current_profile = Missing THEN None
             ELSE IF file.current_profile.t = "null" THEN None
             ELSE file.current_profile.v
       /\ last_resolution.t = "tuple"
       /\ last_resolution.v =
             IF file.last_resolution = Missing THEN <<1920, 1080>>
             ELSE file.last_resolution.v
       /\ last_refresh_rate =
             IF file.last_refresh_rate = Missing THEN 60
             ELSE file.last_refresh_rate.v

C11_Witness ==
    /\ last.op = "load_saved_tweaks" /\ last.ret = "True"
    /\ file.kind = "object"
    /\ file.applied_tweaks # Missing
    /\ file.tweak_history = Missing /\ file.current_profile = Missing
    /\ file.last_resolution = Missing /\ file.last_refresh_rate = Missing
    /\ pre.tweak_history # <<>> /\ pre.current_profile # None
    /\ pre.applied_tweaks # applied_tweaks
    /\ tweak_history = <<>> /\ current_profile = None
    /\ last_resolution = DefaultResolution
    /\ last_refresh_rate = DefaultRefreshRate

\* C12: save_tweaks fails soft: when writing the persistence file fails it
\* returns False without raising and leaves the in-memory applied_tweaks,
\* tweak_history and current_profile unchanged; a track_tweak or an
\* import_tweaks that called it still completes: track_tweak returns with
\* the tweak recorded, import_tweaks returns True with the imported ledger.
C12_SaveFailsSoft ==
    /\ (last.op = "save_tweaks" /\ last.io # "ok")
       => /\ last.ret = "False"
          /\ applied_tweaks = pre.applied_tweaks
          /\ tweak_history = pre.tweak_history
          /\ current_profile = pre.current_profile
    /\ (TrackedOk(last) /\ last.io # "ok")
       => /\ last.ret = "None"
          /\ applied_tweaks = pre.applied_tweaks \cup {last.arg}
          /\ tweak_history =
                Append(pre.tweak_history,
                       [tweak |-> last.arg, timestamp |-> Timestamp,
                        success |-> TRUE])
          /\ current_profile = pre.current_profile
    /\ (last.op = "import_tweaks" /\ ~last.flag)
       => LET doc == ReadFile(pre, last.arg)
          IN  /\ last.ret = "True"
              /\ doc.kind = "object"
              /\ applied_tweaks =
                    IF doc.applied_tweaks = Missing THEN {}
                    ELSE {doc.applied_tweaks.v[i] :
                            i \in DOMAIN doc.applied_tweaks.v}
              /\ tweak_history =
                    IF doc.tweak_history = Missing THEN <<>>
                    ELSE doc.tweak_history.v

C12_Witness ==
    /\ last.op = "import_tweaks" /\ ~last.flag
    /\ last.ret = "True"
    /\ file = Malformed /\ pre.file # Malformed
    /\ applied_tweaks # pre.applied_tweaks
    /\ tweak_history # pre.tweak_history

\* C13: after application startup with a persistence file present (the
\* constructor runs load_saved_tweaks), the ledger's last_resolution and
\* last_refresh_rate equal the values stored in that file, so a value saved
\* by one process is the value the next process holds.
C13_StartupKeepsDisplay ==
    (last.op = "__init__" /\ last.io = "ok" /\ file.kind = "object"
        /\ file.applied_tweaks.t \in {"missing", "list"}
        /\ file.last_resolution.t = "list"
        /\ file.last_refresh_rate.t = "int")
    => /\ last_resolution.v = file.last_resolution.v
       /\ last_refresh_rate = file.last_refresh_rate.v

\* C14: export_tweaks(path) is independent of the primary persistence file:
\* for a path different from tweaks_file it leaves the primary file's content
\* (or absence) unchanged and leaves applied_tweaks, tweak_history and
\* current_profile unchanged.
C14_ExportFrame ==
    last.op = "export_tweaks"
    => /\ last.arg # "frog_tech_tweaks.json"
       /\ file = pre.file
       /\ applied_tweaks = pre.applied_tweaks
       /\ tweak_history = pre.tweak_history
       /\ current_profile = pre.current_profile

C14_Witness ==
    /\ last.op = "export_tweaks" /\ last.ret = "True"
    /\ xfile # pre.xfile
    /\ xfile.kind = "object" /\ file.kind = "object"
    /\ Len(xfile.tweak_history.v) > Len(file.tweak_history.v)
    /\ applied_tweaks # {}

\* C15 as stated: after a successful import_tweaks(path) the primary
\* persistence file holds the imported state: a subsequent load_saved_tweaks
\* (or a new process) yields the imported applied_tweaks, tweak_history and
\* current_profile rather than the pre-import ones.
C15_ImportPersists ==
    (last.op = "import_tweaks" /\ last.ret = "True")
    => LET r == load_saved_tweaks(World, "ok")
           n == FrogOptimizer_init(World, "ok")
       IN  /\ file.kind = "object"
           /\ r.w.applied_tweaks = applied_tweaks
           /\ r.w.tweak_history = tweak_history
           /\ r.w.current_profile = current_profile
           /\ n.w.applied_tweaks = applied_tweaks
           /\ n.w.tweak_history = tweak_history
           /\ n.w.current_profile = current_profile

\* C15: after a successful import_tweaks(path) whose save_tweaks call wrote
\* the primary persistence file, that file holds the imported state: a
\* subsequent load_saved_tweaks (or a new process) yields the imported
\* applied_tweaks, tweak_history and current_profile rather than the
\* pre-import ones.
C15_ImportPersistsWhenSaved ==
    (last.op = "import_tweaks" /\ last.ret = "True" /\ last.flag)
    => LET doc == ReadFile(pre, last.arg)
           imported == IF doc.applied_tweaks = Missing THEN {}
                       ELSE {doc.applied_tweaks.v[i] :
                               i \in DOMAIN doc.applied_tweaks.v}
           r == load_saved_tweaks(World, "ok")
           n == FrogOptimizer_init(World, "ok")
       IN  /\ file.kind = "object"
           /\ r.ret = "True"
           /\ r.w.applied_tweaks = imported
           /\ r.w.tweak_history = tweak_history
           /\ r.w.current_profile = current_profile
           /\ n.w.applied_tweaks = imported
           /\ n.w.tweak_history = tweak_history
           /\ n.w.current_profile = current_profile

C15_Witness ==
    /\ last.op = "import_tweaks" /\ last.ret = "True" /\ last.flag
    /\ last.arg = "full_json"
    /\ pre.file.kind = "object" /\ pre.file # file
    /\ pre.applied_tweaks = {"disable_telemetry"}
    /\ applied_tweaks = {"disable_cortana"}
    /\ Len(tweak_history) = 2 /\ current_profile = "quality"

\* C16: applying any of the nine profiles tracks each successful tweak
\* individually: for every tweak function of the profile that returns a
\* truthy result track_tweak is called, so once the profile application has
\* finished the history holds one new entry for each of them (and one for
\* the profile itself), each with success = True and its name in
\* applied_tweaks.
C16_ProfileTracksEach ==
    last.op = "apply_performance_profile"
    => LET n == Len(pre.tweak_history)
           new == SubSeq(tweak_history, n + 1, Len(tweak_history))
           ok == {i \in DOMAIN run.results : run.results[i]}
       IN  /\ Len(new) = Cardinality(ok) + 1
           /\ \A j \in DOMAIN new :
                 new[j].success /\ new[j].tweak \in applied_tweaks

\* C17: when the manual 'Apply Tweaks' action (apply_tweaks) runs a selected
\* tweak function and it returns success, that tweak is recorded in
\* applied_tweaks and tweak_history: the history holds one new entry for
\* each successful tweak, each with its name in applied_tweaks.
C17_ManualTweaksTracked ==
    last.op = "apply_tweaks"
    => LET n == Len(pre.tweak_history)
           new == SubSeq(tweak_history, n + 1, Len(tweak_history))
           ok == {i \in DOMAIN run.results : run.results[i]}
       IN  /\ Len(new) = Cardinality(ok)
           /\ \A j \in DOMAIN new :
                 new[j].success /\ new[j].tweak \in applied_tweaks

\* C18: the count a profile function returns, which apply_performance_profile
\* reports, equals the number of tweak functions of the profile that
\* returned a truthy result; for super_computer it is the
\* ultra_high_performance count plus the count of its additional tweaks.
C18_CountIsSuccesses ==
    last.op = "apply_performance_profile"
    => LET ok == {i \in DOMAIN run.results : run.results[i]}
           n == Len(UltraHighPerformanceTweaks)
       IN  /\ Len(run.results) = Len(run.invoked)
           /\ run.applied_tweaks = Cardinality(ok)
           /\ last.arg = "super_computer"
              => run.applied_tweaks =
                    apply_ultra_high_performance_profile(
                        pre, SubSeq(run.results, 1, n), "ok", FALSE).ret
                    + Cardinality({i \in ok : i > n})

C18_Witness ==
    /\ last.op = "apply_performance_profile"
    /\ last.arg = "super_computer"
    /\ Len(run.invoked) = 60
    /\ run.applied_tweaks = 30
    /\ ~run.results[1] /\ run.results[2]

\* C19: profile application has no rollback and no dependency between
\* tweaks: when a tweak function of a profile returns failure, no name
\* already added to applied_tweaks is removed, no history entry is removed,
\* and every later tweak of the profile's list is still invoked.
C19_NoRollback ==
    last.op = "apply_performance_profile"
    => LET tweaks == TweaksOf(last.arg)
           n == Len(pre.tweak_history)
       IN  /\ pre.applied_tweaks \subseteq applied_tweaks
           /\ Len(tweak_history) >= n
           /\ SubSeq(tweak_history, 1, n) = pre.tweak_history
           /\ \A i \in DOMAIN tweaks :
                 (run.results[i] /\ tweaks[i].track # None)
                 => /\ tweaks[i].track \in applied_tweaks
                    /\ \E j \in (n + 1)..Len(tweak_history) :
                          tweak_history[j].tweak = tweaks[i].track
           /\ Len(run.invoked) = Len(tweaks)
           /\ \A i \in DOMAIN tweaks : run.invoked[i] = tweaks[i].fn

C19_Witness ==
    /\ last.op = "apply_performance_profile"
    /\ last.arg = "quality"
    /\ run.results = <<FALSE, TRUE, FALSE, TRUE, FALSE>>
    /\ pre.applied_tweaks = {"disable_cortana"}
    /\ applied_tweaks = {"disable_cortana", "graphics_quality_advanced",
                         "windows_services_advanced", "profile_quality"}
    /\ Len(run.invoked) = 5

\* C20 as stated: every tweak function invoked by any of the other eight
\* profiles (quality, performance, balanced, ultra_quality,
\* ultra_performance, low_latency, ultra_low_latency,
\* ultra_high_performance) is also invoked when super_computer is applied.
C20_SuperComputerSuperset ==
    (last.op = "apply_performance_profile" /\ last.arg = "super_computer")
    => \A p \in Profiles \ {"super_computer"} :
          \A i \in DOMAIN TweaksOf(p) :
             \E k \in DOMAIN run.invoked : run.invoked[k] = TweaksOf(p)[i].fn

\* C20: every tweak function invoked by any of the other eight profiles,
\* except optimize_graphics_quality_advanced (which quality and
\* ultra_quality invoke), is also invoked when super_computer is applied;
\* optimize_graphics_quality_advanced is not.
C20_SuperComputerSupersetButGraphicsQuality ==
    (last.op = "apply_performance_profile" /\ last.arg = "super_computer")
    => /\ \A p \in Profiles \ {"super_computer"} :
             \A i \in DOMAIN TweaksOf(p) :
                TweaksOf(p)[i].fn # "optimize_graphics_quality_advanced"
                => \E k \in DOMAIN run.invoked :
                      run.invoked[k] = TweaksOf(p)[i].fn
       /\ \A k \in DOMAIN run.invoked :
             run.invoked[k] # "optimize_graphics_quality_advanced"

C20_Witness ==
    /\ last.op = "apply_performance_profile"
    /\ last.arg = "super_computer"
    /\ Len(run.invoked) = 60
    /\ run.applied_tweaks = 60
    /\ current_profile = "super_computer"

\* C22: tweak_history is append-only: every operation other than clear,
\* import and load (the constructor's load included) leaves the previous
\* tweak_history as an unmodified prefix of the new one, and track_tweak
\* only ever adds one record at the end.
C22_HistoryAppendOnly ==
    LET n == Len(pre.tweak_history)
    IN  /\ last.op \notin {"clear_saved_tweaks", "clear_saved_tweaks_old",
                           "import_tweaks", "load_saved_tweaks", "__init__"}
           => /\ Len(tweak_history) >= n
              /\ \A i \in 1..n : tweak_history[i] = pre.tweak_history[i]
        /\ last.op = "track_tweak"
           => /\ Len(tweak_history) \in {n, n + 1}
              /\ last.flag => /\ Len(tweak_history) = n + 1
                              /\ tweak_history[n + 1].tweak = last.arg

C22_Witness ==
    /\ TrackedOk(last)
    /\ Len(pre.tweak_history) = 1
    /\ pre.tweak_history[1].tweak # last.arg
    /\ Len(tweak_history) = 2
    /\ tweak_history[1] = pre.tweak_history[1]

\* C23: clear requires explicit user confirmation: when the user declines
\* the confirmation dialog, clear_saved_tweaks leaves applied_tweaks,
\* tweak_history, current_profile and the persistence file all unchanged.
C23_ClearDeclined ==
    (last.op = "clear_saved_tweaks" /\ ~last.flag)
    => /\ applied_tweaks = pre.applied_tweaks
       /\ tweak_history = pre.tweak_history
       /\ current_profile = pre.current_profile
       /\ file = pre.file

C23_Witness ==
    /\ last.op = "clear_saved_tweaks" /\ ~last.flag
    /\ applied_tweaks # {} /\ tweak_history # <<>>
    /\ current_profile # None
    /\ file.kind = "object"

\* C29: a failed import changes nothing: when import_tweaks(path) fails
\* (file missing, malformed JSON, top-level value not an object, or
\* applied_tweaks not convertible to a set) it returns False and
\* applied_tweaks, tweak_history, current_profile and the primary
\* persistence file are exactly as before the call.
C29_FailedImportNoChange ==
    (last.op = "import_tweaks" /\ last.ret # "True")
    => /\ last.ret = "False"
       /\ applied_tweaks = pre.applied_tweaks
       /\ tweak_history = pre.tweak_history
       /\ current_profile = pre.current_profile
       /\ file = pre.file

C29_Witness ==
    /\ last.op = "import_tweaks" /\ last.ret = "False"
    /\ last.arg = "bad_applied_json" /\ last.io = "ok"
    /\ applied_tweaks # {} /\ tweak_history # <<>>
    /\ current_profile # "balanced"
    /\ file.kind = "object"

\* C28: when a profile-application worker finishes for selected profile p,
\* current_profile = p and the name 'profile_p' is in applied_tweaks with a
\* success = True history entry, for every outcome of the individual
\* tweaks, including the case where zero tweaks succeeded (reported count 0).
C28_ProfileRecorded ==
    last.op = "apply_performance_profile"
    => /\ current_profile = last.arg
       /\ ("profile_" \o last.arg) \in applied_tweaks
       /\ \E j \in (Len(pre.tweak_history) + 1)..Len(tweak_history) :
             /\ tweak_history[j].tweak = "profile_" \o last.arg
             /\ tweak_history[j].success
       /\ tweak_history[Len(tweak_history)].tweak = "profile_" \o last.arg

C28_Witness ==
    /\ last.op = "apply_performance_profile"
    /\ last.arg = "balanced"
    /\ run.applied_tweaks = 0
    /\ pre.current_profile = "quality"
    /\ current_profile = "balanced"
    /\ "profile_balanced" \in applied_tweaks

\* C30: resetting to defaults does not touch the ledger:
\* reset_performance_profile and reset_tweaks leave applied_tweaks,
\* tweak_history, current_profile and the persistence file unchanged, so
\* tweaks that were reset are still reported as applied and the last
\* profile is still reported as current.
C30_ResetLeavesLedger ==
    last.op \in {"reset_performance_profile", "reset_tweaks"}
    => /\ applied_tweaks = pre.applied_tweaks
       /\ tweak_history = pre.tweak_history
       /\ current_profile = pre.current_profile
       /\ file = pre.file
       /\ \A t \in pre.applied_tweaks : get_tweak_status(World, t)

C30_Witness ==
    /\ last.op = "reset_performance_profile"
    /\ run.reset_tweaks = 4
    /\ current_profile = "quality"
    /\ applied_tweaks = {"disable_cortana"}
    /\ get_tweak_status(World, "disable_cortana")
    /\ file.kind = "object"

\* C24: nothing in the ledger subsystem is fatal: for every I/O outcome
\* (missing file, malformed JSON, write failure, removal failure),
\* save_tweaks, load_saved_tweaks, export_tweaks, import_tweaks and
\* clear_saved_tweaks each finish by returning a boolean and never propagate
\* an exception to the caller; a failed read, write or removal gives False.
C24_NothingFatal ==
    /\ last.op \in {"save_tweaks", "load_saved_tweaks", "export_tweaks",
                    "import_tweaks", "clear_saved_tweaks"}
       => last.ret \in {"True", "False"}
    /\ (last.op \in {"save_tweaks", "export_tweaks"} /\ last.io # "ok")
       => last.ret = "False"
    /\ (last.op = "load_saved_tweaks"
           /\ (last.io # "ok" \/ file.kind \in {"absent", "malformed"}))
       => last.ret = "False"
    /\ (last.op = "import_tweaks"
           /\ (last.io # "ok"
               \/ ReadFile(pre, last.arg).kind \in {"absent", "malformed"}))
       => last.ret = "False"
    /\ (last.op = "clear_saved_tweaks" /\ last.io # "ok")
       => last.ret = "False"

C24_Witness ==
    /\ last.op = "load_saved_tweaks" /\ last.io = "ok"
    /\ file = ForeignDocs.null_resolution_json
    /\ last.ret = "False"
    /\ xfile = Malformed

\* C25: the export file has the same shape as the persistence file with
\* export_timestamp in place of timestamp: the set of keys written by
\* export_tweaks equals the set of keys written by save_tweaks with
\* 'timestamp' replaced by 'export_timestamp' (so it also carries
\* last_resolution and last_refresh_rate).
C25_ExportShape ==
    (last.op = "export_tweaks" /\ last.ret = "True")
    => LET Keys(doc) ==
               {k \in {"applied_tweaks", "tweak_history", "current_profile",
                       "last_resolution", "last_refresh_rate"} :
                  doc[k] # Missing} \cup {doc.stampKey, "system_info"}
           saved == save_tweaks(World, "ok", <<>>).w.file
       IN  /\ Keys(xfile) =
                 (Keys(saved) \ {"timestamp"}) \cup {"export_timestamp"}
           /\ "last_resolution" \in Keys(xfile)
           /\ "last_refresh_rate" \in Keys(xfile)

\* C21: save_tweaks takes no lock, so the open-truncate-write sequences of
\* two worker threads that call track_tweak concurrently can interleave: a
\* state is reachable (C21_Witness) in which both workers hold the file
\* open for writing at once and its content is not the serialisation of any
\* single ledger snapshot but the head of one document followed by the end
\* of another; and a file is torn in this way only when one worker opened
\* it while another held it open.
C21_TornOnlyByInterleaving ==
    file.kind = "torn" => race.overlap

C21_Witness ==
    /\ \A t \in WorkerIds : HoldsFile(workers[t])
    /\ race.overlap /\ ~race.cleared
    /\ file.kind = "torn"
    /\ file.head.applied_tweaks # file.tail.applied_tweaks

\* C26: no lost update on disk: when two worker threads have each run
\* their track_tweak calls concurrently and both have finished without an
\* I/O error, the persistence file's applied_tweaks holds every tracked
\* name and its tweak_history every record, i.e. the file equals the final
\* in-memory ledger, for every interleaving of snapshot building and file
\* writing.
C26_NoLostUpdate ==
    ((\A t \in WorkerIds : workers[t].pc = "done" /\ ~workers[t].failed)
        /\ ~race.cleared)
    => /\ file.kind = "object"
       /\ Range(file.applied_tweaks.v) = applied_tweaks
       /\ file.tweak_history.v = tweak_history

\* C27: a confirmed clear stays cleared: once clear_saved_tweaks has
\* returned and no profile application is started afterwards, the ledger
\* remains empty and the persistence file absent, even while a worker
\* started before the clear runs its remaining track_tweak calls.
C27_ClearStaysCleared ==
    (race.cleared /\ \A t \in WorkerIds : ~workers[t].late)
    => /\ applied_tweaks = {}
       /\ tweak_history = <<>>
       /\ file = Absent

====
